---------------------------- MODULE Spec2Model ----------------------------
(***************************************************************************)
(* CalcYTWatchTime: the watch-time pipeline of src/CalcYTWatchTime.py.     *)
(*                                                                         *)
(* Python strings are modelled as sequences of one-character strings, so   *)
(* that splitting, prefix tests, digit accumulation and lexicographic      *)
(* comparison are computed character by character as the code does.        *)
(***************************************************************************)
EXTENDS Integers, Sequences, FiniteSets, TLC

VARIABLES
    duration,          \* argument of parse_iso_duration
    written,           \* <<the magnitudes the argument was written from>>, if any
    parsed,            \* <<its return value>>, <<>> before the call
    config,            \* Config: start_date, end_date, max_duration, batch_size
    watch_history,     \* the loaded log: a sequence of entries
    pc,                \* position in calculate_watch_time
    video_ids,         \* _extract_video_ids: identifiers
    deleted_count,     \* _extract_video_ids: deleted count
    skipped_count,     \* _extract_video_ids: skipped count
    i,                 \* calculate_watch_time: offset of the next batch
    total_duration,    \* calculate_watch_time: running sum
    processed_videos,  \* calculate_watch_time: running count of durations
    calls,             \* every fetch invocation so far: batch, response, result
    stats,             \* <<the WatchTimeStats returned>>, <<>> before the return
    raised,            \* the exception that escaped calculate_watch_time
    last_api_call,     \* YouTubeWatchTimeCalculator.last_api_call
    now,               \* time.time(), in units of rate_limit_delay
    run,               \* which call of calculate_watch_time this is
    earlier            \* the record of the previous call of calculate_watch_time

vars == <<duration, written, parsed, config, watch_history, pc, video_ids, deleted_count,
          skipped_count, i, total_duration, processed_videos, calls, stats,
          raised, last_api_call, now, run, earlier>>

decoderVars == <<duration, written, parsed>>

pipelineVars == <<config, watch_history, pc, video_ids, deleted_count,
                  skipped_count, i, total_duration, processed_videos, calls,
                  stats, raised, last_api_call, now, run, earlier>>

NoException == "NoException"

(***************************************************************************)
(* Strings                                                                 *)
(***************************************************************************)
Digits == <<"0", "1", "2", "3", "4", "5", "6", "7", "8", "9">>

\* str.isdigit() on one ASCII character
IsDigit(ch) == \E d \in 1..10 : Digits[d] = ch

DigitVal(ch) == (CHOOSE d \in 1..10 : Digits[d] = ch) - 1

RECURSIVE IntOf(_)
\* int(current_number) for a non-empty run of ASCII digits
IntOf(s) ==
    IF s = <<>> THEN 0
    ELSE IntOf(SubSeq(s, 1, Len(s) - 1)) * 10 + DigitVal(s[Len(s)])

Chars(s) == {s[k] : k \in 1..Len(s)}

\* s.split(sep)[-1]: the text after the last sep, the whole of s without one
SplitLast(s, sep) ==
    LET at == {k \in 1..Len(s) : s[k] = sep}
    IN  IF at = {} THEN s
        ELSE LET last == CHOOSE k \in at : \A j \in at : j <= k
             IN  SubSeq(s, last + 1, Len(s))

Rep(ch, n) == [k \in 1..n |-> ch]

RECURSIVE SumSeq(_)
\* sum(durations)
SumSeq(s) == IF s = <<>> THEN 0 ELSE Head(s) + SumSeq(Tail(s))

Min(a, b) == IF a < b THEN a ELSE b

(***************************************************************************)
(* parse_iso_duration                                                      *)
(***************************************************************************)
SecondsInHour == 3600
SecondsInMinute == 60

\* the loop body of parse_iso_duration with current_number kept across the unit
ParseCharKeepsNumber(st, ch) ==
    IF IsDigit(ch) THEN [st EXCEPT !.current_number = Append(@, ch)]
    ELSE IF ch = "H" THEN
        [st EXCEPT !.hours = IF st.current_number # <<>> THEN IntOf(st.current_number) ELSE 0]
    ELSE IF ch = "M" THEN
        [st EXCEPT !.minutes = IF st.current_number # <<>> THEN IntOf(st.current_number) ELSE 0]
    ELSE IF ch = "S" THEN
        [st EXCEPT !.seconds = IF st.current_number # <<>> THEN IntOf(st.current_number) ELSE 0]
    ELSE st

\* one iteration of "for char in time_part"
ParseChar(st, ch) ==
    IF IsDigit(ch) THEN [st EXCEPT !.current_number = Append(@, ch)]
    ELSE IF ch = "H" THEN
        [st EXCEPT !.hours = IF st.current_number # <<>> THEN IntOf(st.current_number) ELSE 0,
                   !.current_number = <<>>]
    ELSE IF ch = "M" THEN
        [st EXCEPT !.minutes = IF st.current_number # <<>> THEN IntOf(st.current_number) ELSE 0,
                   !.current_number = <<>>]
    ELSE IF ch = "S" THEN
        [st EXCEPT !.seconds = IF st.current_number # <<>> THEN IntOf(st.current_number) ELSE 0,
                   !.current_number = <<>>]
    ELSE st

RECURSIVE ParseLoop(_, _)
ParseLoop(st, time_part) ==
    IF time_part = <<>> THEN st
    ELSE ParseLoop(ParseChar(st, Head(time_part)), Tail(time_part))

\* duration.split('T')[-1] if 'T' in duration else ''
TimePart(d) == IF "T" \in Chars(d) THEN SplitLast(d, "T") ELSE <<>>

parse_iso_duration(d) ==
    IF d = <<>> \/ Head(d) # "P" THEN 0
    ELSE LET st == ParseLoop([hours |-> 0, minutes |-> 0, seconds |-> 0,
                              current_number |-> <<>>], TimePart(d))
         IN  (st.hours * SecondsInHour) + (st.minutes * SecondsInMinute) + st.seconds

(***************************************************************************)
(* Inputs of the decoder: every string of at most MaxDurLen characters     *)
(* over DurAlphabet, every duration written in the ISO-8601 form           *)
(* P[nD]T[nH][nM][nS] with magnitudes up to MaxMag, and the named examples.*)
(***************************************************************************)
MaxDurLen == 4
MaxMag == 11

DurAlphabet == {"P", "T", "H", "M", "S", "D", "1", "2"}

ShortStrings == UNION {[1..n -> DurAlphabet] : n \in 0..MaxDurLen}

RECURSIVE Decimal(_)
\* the decimal numeral of a natural number
Decimal(n) == IF n < 10 THEN <<Digits[n + 1]>>
              ELSE Decimal(n \div 10) \o <<Digits[(n % 10) + 1]>>

\* an optional magnitude: <<>> when the unit is absent, <<n>> otherwise
Absent == <<>>
Magnitudes == {Absent} \cup {<<n>> : n \in 0..MaxMag}

Unit(c, u) == IF c = Absent THEN <<>> ELSE Decimal(c[1]) \o <<u>>

\* the ISO-8601 text of d days, h hours, m minutes, s seconds (each optional)
IsoText(d, h, m, s) ==
    <<"P">> \o Unit(d, "D")
            \o (IF h = Absent /\ m = Absent /\ s = Absent THEN <<>> ELSE <<"T">>)
            \o Unit(h, "H") \o Unit(m, "M") \o Unit(s, "S")

Mag(c) == IF c = Absent THEN 0 ELSE c[1]

WellFormed == {[d |-> d, h |-> h, m |-> m, s |-> s] :
                  d \in {Absent, <<1>>}, h \in Magnitudes, m \in Magnitudes, s \in Magnitudes}

PT1H2M10S == <<"P", "T", "1", "H", "2", "M", "1", "0", "S">>
PT45S == <<"P", "T", "4", "5", "S">>
P1D == <<"P", "1", "D">>
PT30M == <<"P", "T", "3", "0", "M">>
PT2H == <<"P", "T", "2", "H">>
PT1p5S == <<"P", "T", "1", ".", "5", "S">>
PT1D2H == <<"P", "T", "1", "D", "2", "H">>
PT1H2H == <<"P", "T", "1", "H", "2", "H">>
P1MT2M == <<"P", "1", "M", "T", "2", "M">>

Examples == {PT1H2M10S, PT45S, P1D, PT30M, PT2H, PT1p5S, PT1D2H, PT1H2H, P1MT2M}

(***************************************************************************)
(* Timestamps and their comparison                                         *)
(***************************************************************************)
\* the characters of a timestamp, in code-point order
CodePoints == <<"-", "0", "1", "2", "3", "4", "5", "6", "7", "8", "9", ":", "T", "Z">>

Ord(ch) == CHOOSE k \in 1..Len(CodePoints) : CodePoints[k] = ch

\* Python's a < b on strings: by the first differing character, a proper prefix first
StrLess(a, b) ==
    LET m == Min(Len(a), Len(b))
        diff == {k \in 1..m : a[k] # b[k]}
    IN  IF diff = {} THEN Len(a) < Len(b)
        ELSE LET k == CHOOSE x \in diff : \A y \in diff : x <= y
             IN  Ord(a[k]) < Ord(b[k])

TwoDigits(n) == <<Digits[(n \div 10) + 1], Digits[(n % 10) + 1]>>

\* "YYYY-MM-DDT00:00:00Z"
Stamp(y, m, d) ==
    Decimal(y) \o <<"-">> \o TwoDigits(m) \o <<"-">> \o TwoDigits(d)
        \o <<"T", "0", "0", ":", "0", "0", ":", "0", "0", "Z">>

\* Config.start_date's default, "2000-01-01T00:00:00Z"
DefaultStart == Stamp(2000, 1, 1)
BeforeStart == Stamp(1999, 12, 31)
WindowEnd == Stamp(2020, 6, 15)
AfterEnd == Stamp(2020, 6, 16)

(***************************************************************************)
(* _validate_config                                                        *)
(*                                                                         *)
(* datetime.fromisoformat is modelled on the extended format               *)
(* YYYY-MM-DD[*HH[:MM[:SS]][+HH:MM]], * being any one character.  The      *)
(* credential and the history file are taken to be in order.               *)
(***************************************************************************)
RECURSIVE Replace(_, _, _)
\* s.replace(old, new) for a one-character old
Replace(s, old, new) ==
    IF s = <<>> THEN <<>>
    ELSE (IF Head(s) = old THEN new ELSE <<Head(s)>>) \o Replace(Tail(s), old, new)

\* s is a decimal numeral of a number from lo to hi
IsNumberIn(s, lo, hi) ==
    /\ s # <<>>
    /\ \A k \in 1..Len(s) : IsDigit(s[k])
    /\ IntOf(s) \in lo..hi

IsLeap(y) == (y % 4 = 0 /\ y % 100 # 0) \/ y % 400 = 0

DaysInMonth(y, m) ==
    IF m = 2 THEN (IF IsLeap(y) THEN 29 ELSE 28)
    ELSE IF m \in {4, 6, 9, 11} THEN 30 ELSE 31

\* YYYY-MM-DD, a date of the calendar
IsDateString(s) ==
    /\ Len(s) = 10
    /\ s[5] = "-" /\ s[8] = "-"
    /\ IsNumberIn(SubSeq(s, 1, 4), 1, 9999)
    /\ IsNumberIn(SubSeq(s, 6, 7), 1, 12)
    /\ IsNumberIn(SubSeq(s, 9, 10), 1,
                  DaysInMonth(IntOf(SubSeq(s, 1, 4)), IntOf(SubSeq(s, 6, 7))))

\* HH[:MM[:SS]]
IsClockString(s) ==
    /\ Len(s) \in {2, 5, 8}
    /\ IsNumberIn(SubSeq(s, 1, 2), 0, 23)
    /\ Len(s) >= 5 => (s[3] = ":" /\ IsNumberIn(SubSeq(s, 4, 5), 0, 59))
    /\ Len(s) = 8 => (s[6] = ":" /\ IsNumberIn(SubSeq(s, 7, 8), 0, 59))

\* +HH:MM or -HH:MM
IsOffsetString(s) ==
    /\ Len(s) = 6
    /\ s[1] \in {"+", "-"}
    /\ IsClockString(SubSeq(s, 2, 6))

\* datetime.datetime.fromisoformat(s) returns instead of raising ValueError
fromisoformat_accepts(s) ==
    /\ Len(s) >= 10
    /\ IsDateString(SubSeq(s, 1, 10))
    /\ \/ Len(s) = 10
       \/ /\ Len(s) >= 12
          /\ LET rest == SubSeq(s, 12, Len(s))
             IN  \/ IsClockString(rest)
                 \/ \E n \in 1..Len(rest) :
                       /\ IsClockString(SubSeq(rest, 1, n))
                       /\ IsOffsetString(SubSeq(rest, n + 1, Len(rest)))

\* _validate_config without the test of the start date
validate_config_unchecked(cfg) == TRUE

\* _validate_config returns instead of raising: the start date is accepted
validate_config(cfg) ==
    fromisoformat_accepts(Replace(cfg.start_date, "Z", <<"+", "0", "0", ":", "0", "0">>))

(***************************************************************************)
(* _extract_video_ids                                                      *)
(*                                                                         *)
(* A log entry is a record holding exactly the keys the JSON object has.   *)
(***************************************************************************)
IdLength == 11

Has(obj, key) == key \in DOMAIN obj

\* entry.get("time", "")
EntryTime(entry) == IF Has(entry, "time") THEN entry.time ELSE <<>>

\* video_url.split('=')[-1]
VideoId(video_url) == SplitLast(video_url, "=")

\* "entry_time > end_date" written as ">="
AfterEndInclusive(entry_time, end_date) ==
    end_date # <<>> /\ ~StrLess(entry_time, end_date)

\* self.config.end_date and entry_time > self.config.end_date
AfterEndDate(entry_time, end_date) ==
    end_date # <<>> /\ StrLess(end_date, entry_time)

\* entry_time < self.config.start_date
BeforeStartDate(entry_time, start_date) == StrLess(entry_time, start_date)

\* the date test made before the titleUrl test
ExtractEntryDateFirst(acc, entry, cfg) ==
    IF BeforeStartDate(EntryTime(entry), cfg.start_date)
       \/ AfterEndDate(EntryTime(entry), cfg.end_date)
    THEN [acc EXCEPT !.skipped_count = @ + 1]
    ELSE IF ~Has(entry, "titleUrl") THEN [acc EXCEPT !.deleted_count = @ + 1]
    ELSE LET video_id == VideoId(entry.titleUrl)
         IN  IF video_id # <<>> /\ Len(video_id) = IdLength
             THEN [acc EXCEPT !.video_ids = Append(@, video_id)]
             ELSE acc

\* an in-window entry without a valid identifier counted as skipped
ExtractEntryInvalidSkipped(acc, entry, cfg) ==
    IF ~Has(entry, "titleUrl") THEN [acc EXCEPT !.deleted_count = @ + 1]
    ELSE IF BeforeStartDate(EntryTime(entry), cfg.start_date)
         THEN [acc EXCEPT !.skipped_count = @ + 1]
    ELSE IF AfterEndDate(EntryTime(entry), cfg.end_date)
         THEN [acc EXCEPT !.skipped_count = @ + 1]
    ELSE LET video_id == VideoId(entry.titleUrl)
         IN  IF video_id # <<>> /\ Len(video_id) = IdLength
             THEN [acc EXCEPT !.video_ids = Append(@, video_id)]
             ELSE [acc EXCEPT !.skipped_count = @ + 1]

\* one iteration of "for entry in watch_history"
ExtractEntry(acc, entry, cfg) ==
    IF ~Has(entry, "titleUrl") THEN [acc EXCEPT !.deleted_count = @ + 1]
    ELSE IF BeforeStartDate(EntryTime(entry), cfg.start_date)
         THEN [acc EXCEPT !.skipped_count = @ + 1]
    ELSE IF AfterEndDate(EntryTime(entry), cfg.end_date)
         THEN [acc EXCEPT !.skipped_count = @ + 1]
    ELSE LET video_id == VideoId(entry.titleUrl)
         IN  IF video_id # <<>> /\ Len(video_id) = IdLength
             THEN [acc EXCEPT !.video_ids = Append(@, video_id)]
             ELSE acc

RECURSIVE ExtractLoop(_, _, _)
ExtractLoop(acc, history, cfg) ==
    IF history = <<>> THEN acc
    ELSE ExtractLoop(ExtractEntry(acc, Head(history), cfg), Tail(history), cfg)

\* returns video_ids, deleted_count, skipped_count
extract_video_ids(history, cfg) ==
    ExtractLoop([video_ids |-> <<>>, deleted_count |-> 0, skipped_count |-> 0],
                history, cfg)

(***************************************************************************)
(* _rate_limit                                                             *)
(*                                                                         *)
(* Time is counted in units of half of Config.rate_limit_delay.            *)
(***************************************************************************)
RateLimitDelay == 2

\* time.sleep(secs) suspends for secs or longer: how much longer it may last
Oversleep == {0, 1}

\* _rate_limit without the sleep
rate_limit_unthrottled(last, current_time) == {current_time}

\* the values _rate_limit may store in last_api_call: its second reading of
\* time.time(), taken after the sleep when there is one
rate_limit(last, current_time) ==
    LET time_since_last_call == current_time - last
    IN  IF time_since_last_call < RateLimitDelay
        THEN {current_time + (RateLimitDelay - time_since_last_call) + late :
                 late \in Oversleep}
        ELSE {current_time}

(***************************************************************************)
(* _fetch_video_durations                                                  *)
(*                                                                         *)
(* A response is [raises |-> e] when requests.get or raise_for_status      *)
(* raises the RequestException e, and [data |-> body] otherwise, body      *)
(* being a record with exactly the keys of the JSON object.  A duration    *)
(* that is present is a string, as the log's time and titleUrl are.        *)
(***************************************************************************)
Returned(durations) == [durations |-> durations, exception |-> NoException]
Raised(e) == [durations |-> <<>>, exception |-> e]

\* durations.append(duration) without the cap
ItemDurationUncapped(video, cfg) ==
    IF ~Has(video, "contentDetails") \/ ~Has(video.contentDetails, "duration")
    THEN 0
    ELSE parse_iso_duration(video.contentDetails.duration)

\* the body of "for video in data.get('items', [])": the value appended,
\* 0 after the KeyError of a missing field
ItemDuration(video, cfg) ==
    IF ~Has(video, "contentDetails") \/ ~Has(video.contentDetails, "duration")
    THEN 0
    ELSE Min(parse_iso_duration(video.contentDetails.duration), cfg.max_duration)

RECURSIVE ItemsLoop(_, _, _)
ItemsLoop(durations, items, cfg) ==
    IF items = <<>> THEN durations
    ELSE ItemsLoop(Append(durations, ItemDuration(Head(items), cfg)), Tail(items), cfg)

\* the try block of _fetch_video_durations: the list returned, or the
\* exception that escapes "except requests.exceptions.RequestException"
fetch_video_durations(response, cfg) ==
    IF Has(response, "raises") THEN Returned(<<>>)
    ELSE LET data == response.data
         IN  IF Has(data, "error")
             THEN IF Has(data.error, "message") THEN Returned(<<>>)
                  ELSE Raised("KeyError")
             ELSE Returned(ItemsLoop(<<>>, IF Has(data, "items") THEN data.items
                                           ELSE <<>>, cfg))

(***************************************************************************)
(* calculate_watch_time                                                    *)
(***************************************************************************)
\* the deleted and skipped counts passed in each other's place
WatchTimeStatsSwapped(total_seconds, total_videos, deleted, skipped) ==
    [total_seconds |-> total_seconds, total_videos |-> total_videos,
     deleted_videos |-> skipped, skipped_videos |-> deleted]

\* WatchTimeStats(total_seconds, total_videos, deleted_videos, skipped_videos)
WatchTimeStats(total_seconds, total_videos, deleted, skipped) ==
    [total_seconds |-> total_seconds, total_videos |-> total_videos,
     deleted_videos |-> deleted, skipped_videos |-> skipped]

\* video_ids[i:i + batch_size], i counted from 0
Batch(ids, offset, batch_size) ==
    SubSeq(ids, offset + 1, Min(offset + batch_size, Len(ids)))

\* a running total kept on the calculator across calls
StartTotalCarried(before) == IF before = <<>> THEN 0 ELSE before[1].total_duration

\* total_duration = 0
StartTotal(before) == 0

\* the next value of range(0, len(video_ids), batch_size)
NextOffset(offset, batch_size, durations, n) == offset + batch_size

\* total_videos taken from the identifiers instead of the log
TotalVideosFromIds(history, ids) == Len(ids)

\* len(watch_history)
TotalVideos(history, ids) == Len(history)

\* not video_ids
NoIds(ids) == ids = <<>>

\* save_results: the "processed_videos" written to the output file
ProcessedVideos(st) == st.total_videos - st.deleted_videos - st.skipped_videos

(***************************************************************************)
(* The remote endpoint                                                     *)
(***************************************************************************)
IdA == Rep("a", IdLength)
IdB == Rep("b", IdLength)

Item(d) == [contentDetails |-> [duration |-> d]]

\* an item whose contentDetails carries no duration
ItemNoDuration == [contentDetails |-> [dimension |-> "2d"]]

Items == {Item(PT30M), Item(PT2H), Item(P1D), ItemNoDuration}

\* the API answers a batch with at most one item per identifier asked for
ItemLists(n) == UNION {[1..k -> Items] : k \in 0..n}

ErrorBodies == {[error |-> [message |-> "quotaExceeded"]],
                [error |-> [code |-> "403"]]}

Failures == {[raises |-> "ConnectionError"], [raises |-> "HTTPError"]}

Responses(batch) ==
    Failures \cup {[data |-> b] : b \in ErrorBodies}
             \cup {[data |-> [items |-> its]] : its \in ItemLists(Len(batch))}

\* what the remote may answer to the k-th request of this call: anything,
\* but what it answered to the same request of the previous call
Remote(k, batch) ==
    IF earlier # <<>> /\ k <= Len(earlier[1].calls) /\ earlier[1].calls[k].batch = batch
    THEN {earlier[1].calls[k].response}
    ELSE Responses(batch)

\* time that may pass between two readings of the clock: less than the
\* delay, or more
Elapsed == {1, RateLimitDelay + 1}

\* the first reading of time.time(), far from the 0 that __init__ stores
Epoch == 10

(***************************************************************************)
(* Actions                                                                 *)
(***************************************************************************)
\* calculate_watch_time up to its first remote call: load, extract, and
\* the return for an empty identifier list
Start ==
    /\ pc = "start"
    /\ LET r == extract_video_ids(watch_history, config)
       IN  /\ video_ids' = r.video_ids
           /\ deleted_count' = r.deleted_count
           /\ skipped_count' = r.skipped_count
           /\ i' = 0
           /\ total_duration' = StartTotal(earlier)
           /\ processed_videos' = 0
           /\ IF NoIds(r.video_ids)
              THEN /\ stats' = <<WatchTimeStats(0, TotalVideos(watch_history, r.video_ids),
                                                r.deleted_count, r.skipped_count)>>
                   /\ pc' = "done"
              ELSE /\ stats' = <<>>
                   /\ pc' = "batches"
    /\ UNCHANGED <<config, watch_history, calls, raised, last_api_call, now, run, earlier>>
    /\ UNCHANGED decoderVars

\* one iteration of the batch loop: _rate_limit, the request, the durations
\* of the response, the sums; after the last batch, the return
Fetch ==
    /\ pc = "batches"
    /\ LET batch == Batch(video_ids, i, config.batch_size)
       IN  \E dt \in Elapsed : \E called \in rate_limit(last_api_call, now + dt) :
           \E response \in Remote(Len(calls) + 1, batch) :
             LET r == fetch_video_durations(response, config)
                 offset == NextOffset(i, config.batch_size, r.durations, Len(video_ids))
                 total == total_duration + SumSeq(r.durations)
             IN  /\ last_api_call' = called
                 /\ now' = called
                 /\ calls' = Append(calls, [batch |-> batch, response |-> response,
                                            durations |-> r.durations,
                                            exception |-> r.exception])
                 /\ IF r.exception # NoException
                    THEN /\ raised' = r.exception
                         /\ pc' = "raised"
                         /\ UNCHANGED <<i, total_duration, processed_videos, stats>>
                    ELSE /\ total_duration' = total
                         /\ processed_videos' = processed_videos + Len(r.durations)
                         /\ i' = offset
                         /\ UNCHANGED raised
                         /\ IF offset >= Len(video_ids)
                            THEN /\ stats' = <<WatchTimeStats(total,
                                                   TotalVideos(watch_history, video_ids),
                                                   deleted_count, skipped_count)>>
                                 /\ pc' = "done"
                            ELSE UNCHANGED <<stats, pc>>
    /\ UNCHANGED <<config, watch_history, video_ids, deleted_count, skipped_count,
                   run, earlier>>
    /\ UNCHANGED decoderVars

\* the caller runs the pipeline again over the same log, on the same
\* calculator or on a new one built from the same Config (__init__)
CallAgain ==
    /\ pc \in {"done", "raised"}
    /\ run = 1
    /\ earlier' = <<[pc |-> pc, stats |-> stats, calls |-> calls, raised |-> raised,
                     total_duration |-> total_duration,
                     last_api_call |-> last_api_call]>>
    /\ run' = run + 1
    /\ pc' = "start"
    /\ video_ids' = <<>>
    /\ deleted_count' = 0
    /\ skipped_count' = 0
    /\ i' = 0
    /\ total_duration' = 0
    /\ processed_videos' = 0
    /\ calls' = <<>>
    /\ stats' = <<>>
    /\ raised' = NoException
    /\ \E fresh \in BOOLEAN : last_api_call' = IF fresh THEN 0 ELSE last_api_call
    /\ UNCHANGED <<config, watch_history, now>>
    /\ UNCHANGED decoderVars

\* one call of parse_iso_duration
Decode ==
    /\ parsed = <<>>
    /\ pc = "decoder"
    /\ parsed' = <<parse_iso_duration(duration)>>
    /\ UNCHANGED <<duration, written>>
    /\ UNCHANGED pipelineVars

(***************************************************************************)
(* Initial states                                                          *)
(***************************************************************************)
Url(id) == <<"w", "?", "v", "=">> \o id

Watched(id) == [time |-> WindowEnd, titleUrl |-> Url(id)]
Removed == [time |-> WindowEnd]
TooOld == [time |-> BeforeStart, titleUrl |-> Url(IdA)]
BadId == [time |-> WindowEnd, titleUrl |-> Url(Rep("c", IdLength - 1))]
LongId == [time |-> WindowEnd, titleUrl |-> Url(Rep("c", IdLength + 1))]
NoId == [time |-> WindowEnd, titleUrl |-> Url(<<>>)]

Logs(entries, n) == UNION {[1..k -> entries] : k \in 0..n}

PipelineInit(logs, configs) ==
    /\ config \in configs
    /\ watch_history \in logs
    /\ pc = "start"
    /\ video_ids = <<>>
    /\ deleted_count = 0
    /\ skipped_count = 0
    /\ i = 0
    /\ total_duration = 0
    /\ processed_videos = 0
    /\ calls = <<>>
    /\ stats = <<>>
    /\ raised = NoException
    /\ last_api_call = 0
    /\ now = Epoch
    /\ run = 1
    /\ earlier = <<>>
    /\ duration = <<>>
    /\ written = <<>>
    /\ parsed = <<>>

DefaultMaxDuration == 5400

Configs(ends, caps, sizes) ==
    {[start_date |-> DefaultStart, end_date |-> e, max_duration |-> c, batch_size |-> b] :
        e \in ends, c \in caps, b \in sizes}

\* one run of calculate_watch_time over a log of at most MaxHistory entries
MaxHistory == 3

Init ==
    PipelineInit(Logs({Watched(IdA), Watched(IdB), Removed, TooOld, BadId}, MaxHistory),
                 Configs({<<>>}, {DefaultMaxDuration}, {1, 2}))

Next == Start \/ Fetch

Spec == Init /\ [][Next]_vars

\* _extract_video_ids over every log of at most MaxLog entries, an entry
\* having or lacking each of its two fields
MaxLog == 2

TwoEquals(id) == <<"w", "?", "l", "=", "x", "&", "v", "=">> \o id

TitleUrls == {Url(IdA), TwoEquals(IdB), Url(Rep("c", IdLength - 1)),
              Url(Rep("c", IdLength + 1)), Rep("d", IdLength), Url(<<>>)}

Times == {BeforeStart, DefaultStart, WindowEnd, AfterEnd}

Entries ==
    {[time |-> t, titleUrl |-> u] : t \in Times, u \in TitleUrls}
        \cup {[titleUrl |-> u] : u \in TitleUrls}
        \cup {[time |-> t] : t \in Times}
        \cup {[title |-> "Watched a video that has been removed"]}

InitExtract ==
    PipelineInit(Logs(Entries, MaxLog),
                 Configs({<<>>, WindowEnd}, {DefaultMaxDuration}, {1}))

NextExtract == Start

SpecExtract == InitExtract /\ [][NextExtract]_vars

\* calculate_watch_time called again over the same log and the same remote
\* answers, with either cap and either batch size
MaxRerunLog == 2

InitRerun ==
    PipelineInit(Logs({Watched(IdA), Watched(IdB), Removed, TooOld}, MaxRerunLog),
                 Configs({<<>>}, {1800, DefaultMaxDuration}, {1, 2}))

NextRerun == Start \/ Fetch \/ CallAgain

SpecRerun == InitRerun /\ [][NextRerun]_vars

\* one run of calculate_watch_time over a log of at most MaxAccountLog
\* entries, those with a titleUrl and a time in the window holding an
\* identifier of 11, 10, 12 or no characters
MaxAccountLog == 3

InitAccount ==
    PipelineInit(Logs({Watched(IdA), Removed, TooOld, BadId, LongId, NoId}, MaxAccountLog),
                 Configs({<<>>}, {DefaultMaxDuration}, {1, 2}))

SpecAccount == InitAccount /\ [][Next]_vars

\* _extract_video_ids on a calculator built from any Config that
\* _validate_config lets through, over every log of at most MaxUntimedLog
\* entries, among them the entries that have a titleUrl and no time
MaxUntimedLog == 2

DateOnly == SubSeq(WindowEnd, 1, 10)
BadMonth == Stamp(2000, 13, 1)

StartDates == {<<>>, <<"Z">>, BadMonth, DefaultStart, DateOnly, WindowEnd, AfterEnd}

ConfigsFrom(starts, ends) ==
    {[start_date |-> st, end_date |-> e, max_duration |-> DefaultMaxDuration,
      batch_size |-> 1] : st \in starts, e \in ends}

\* the Configs for which __init__ returns
Validated(configs) == {cfg \in configs : validate_config(cfg)}

UntimedEntries ==
    {[titleUrl |-> u] : u \in TitleUrls}
        \cup {[time |-> t, titleUrl |-> Url(IdA)] : t \in Times}
        \cup {Removed}

InitUntimed ==
    PipelineInit(Logs(UntimedEntries, MaxUntimedLog),
                 Validated(ConfigsFrom(StartDates, {<<>>, WindowEnd})))

SpecUntimed == InitUntimed /\ [][NextExtract]_vars

\* parse_iso_duration over the short strings, the examples and the texts of
\* the well-formed durations
InitDecoder ==
    /\ \/ duration \in ShortStrings \cup Examples /\ written = <<>>
       \/ \E w \in WellFormed : duration = IsoText(w.d, w.h, w.m, w.s) /\ written = <<w>>
    /\ parsed = <<>>
    /\ pc = "decoder"
    /\ config = [start_date |-> DefaultStart, end_date |-> <<>>,
                 max_duration |-> DefaultMaxDuration, batch_size |-> 1]
    /\ watch_history = <<>>
    /\ video_ids = <<>>
    /\ deleted_count = 0
    /\ skipped_count = 0
    /\ i = 0
    /\ total_duration = 0
    /\ processed_videos = 0
    /\ calls = <<>>
    /\ stats = <<>>
    /\ raised = NoException
    /\ last_api_call = 0
    /\ now = Epoch
    /\ run = 1
    /\ earlier = <<>>

NextDecoder == Decode

SpecDecoder == InitDecoder /\ [][NextDecoder]_vars

(***************************************************************************)
(* Properties of parse_iso_duration (under SpecDecoder)                    *)
(***************************************************************************)
RECURSIVE Pow10(_)
Pow10(n) == IF n = 0 THEN 1 ELSE 10 * Pow10(n - 1)

\* the number a run of decimal digits denotes, by place value
PlaceValue(digs) ==
    SumSeq([k \in 1..Len(digs) |-> DigitVal(digs[k]) * Pow10(Len(digs) - k)])

Largest(S) == CHOOSE x \in S : \A y \in S : y <= x

\* the text that follows the last 'T' of d: nothing when d has no 'T'
Segment(d) ==
    LET cuts == {k \in 1..Len(d) : d[k] = "T" /\ \A j \in (k + 1)..Len(d) : d[j] # "T"}
    IN  IF cuts = {} THEN <<>>
        ELSE SubSeq(d, (CHOOSE k \in cuts : TRUE) + 1, Len(d))

UnitMarkers == {"H", "M", "S"}

\* the digit run that the marker at position p terminates
RunBefore(seg, p) ==
    LET stop == Largest({0} \cup {j \in 1..(p - 1) : ~IsDigit(seg[j])})
    IN  SubSeq(seg, stop + 1, p - 1)

\* every digit between the previous unit marker and the marker at position p
DigitsSinceMarker(seg, p) ==
    LET stop == Largest({0} \cup {j \in 1..(p - 1) : seg[j] \in UnitMarkers})
    IN  SelectSeq(SubSeq(seg, stop + 1, p - 1), IsDigit)

\* the magnitude terminated by the (last) marker u in the segment after 'T'
TerminatedBy(d, u) ==
    LET seg == Segment(d)
        at == {p \in 1..Len(seg) : seg[p] = u}
    IN  IF at = {} THEN 0 ELSE PlaceValue(RunBefore(seg, Largest(at)))

\* the digits accumulated up to the (last) marker u in the segment after 'T'
AccumulatedBy(d, u) ==
    LET seg == Segment(d)
        at == {p \in 1..Len(seg) : seg[p] = u}
    IN  IF at = {} THEN 0 ELSE PlaceValue(DigitsSinceMarker(seg, Largest(at)))

BeginsWithP(d) == d # <<>> /\ d[1] = "P"

LexLess(a, b) ==
    \E k \in 1..Len(b) :
        /\ \A j \in 1..(k - 1) : j <= Len(a) /\ a[j] = b[j]
        /\ k > Len(a) \/ Ord(a[k]) < Ord(b[k])

\* x is the text after the last '=' of url (all of url when it has no '=')
IsAfterLastEquals(x, url) ==
    \E k \in 0..Len(url) :
        /\ x = SubSeq(url, k + 1, Len(url))
        /\ \A j \in 1..Len(x) : x[j] # "="
        /\ k = 0 \/ url[k] = "="

TextAfterLastEquals(url) ==
    CHOOSE x \in {SubSeq(url, k + 1, Len(url)) : k \in 0..Len(url)} :
        IsAfterLastEquals(x, url)

TimeOf(e) == IF "time" \in DOMAIN e THEN e.time ELSE <<>>

IsDeleted(e) == "titleUrl" \notin DOMAIN e

OutOfWindow(e) ==
    \/ LexLess(TimeOf(e), config.start_date)
    \/ config.end_date # <<>> /\ LexLess(config.end_date, TimeOf(e))

IsSkipped(e) == ~IsDeleted(e) /\ OutOfWindow(e)

IsKept(e) ==
    /\ ~IsDeleted(e)
    /\ ~OutOfWindow(e)
    /\ Len(TextAfterLastEquals(e.titleUrl)) = 11

Count(history, Test(_)) == Cardinality({k \in 1..Len(history) : Test(history[k])})

KeptIds(history) ==
    LET kept == SelectSeq(history, IsKept)
    IN  [k \in 1..Len(kept) |-> TextAfterLastEquals(kept[k].titleUrl)]

Extracted == pc \in {"batches", "done"}

\* C1: the extractor classifies each entry by the first rule that matches:
\* no titleUrl, deleted (whatever its time); else a time before start_date
\* or after a configured end_date, skipped; else an 11-character text after
\* the last '=', kept.  The identifiers are those of the kept entries in log
\* order, and the two counts are those of the deleted and the skipped.
C1_Classified ==
    Extracted =>
        /\ deleted_count = Count(watch_history, IsDeleted)
        /\ skipped_count = Count(watch_history, IsSkipped)
        /\ video_ids = KeptIds(watch_history)
        /\ deleted_count + skipped_count + Len(video_ids) <= Len(watch_history)

\* C1 witness: a log whose first entry has no titleUrl and a time before the
\* start, and whose second entry is kept, has been extracted
C1_Witness ==
    /\ Extracted
    /\ watch_history = <<[time |-> BeforeStart],
                         [time |-> WindowEnd, titleUrl |-> TwoEquals(IdB)]>>
    /\ deleted_count = 1
    /\ skipped_count = 0
    /\ video_ids = <<IdB>>

\* an entry with a titleUrl whose time is the configured start or end
AtBoundary(e) ==
    /\ "titleUrl" \in DOMAIN e
    /\ "time" \in DOMAIN e
    /\ e.time = config.start_date \/ (config.end_date # <<>> /\ e.time = config.end_date)

AtEnd(e) == config.end_date # <<>> /\ TimeOf(e) = config.end_date

HasId(e) == Len(TextAfterLastEquals(e.titleUrl)) = 11

NotAtEndWithId(e) == ~AtEnd(e) /\ HasId(e)

IdsOf(entries) == [k \in 1..Len(entries) |-> TextAfterLastEquals(entries[k].titleUrl)]

OnlyBoundaries == \A k \in 1..Len(watch_history) : AtBoundary(watch_history[k])

\* C9 as stated: the window is start-inclusive and end-exclusive: of the
\* entries with a titleUrl, one timed at the start is kept and one timed at a
\* configured end is counted as skipped and contributes no identifier.
C9_AsStated ==
    Extracted /\ OnlyBoundaries =>
        /\ skipped_count = Count(watch_history, AtEnd)
        /\ video_ids = IdsOf(SelectSeq(watch_history, NotAtEndWithId))

\* C9 amended: the window is inclusive at both ends: of the entries with a
\* titleUrl, one timed at the start and one timed at a configured end are
\* both kept; neither is counted as skipped, and each contributes its
\* identifier when that has 11 characters.
C9_Inclusive ==
    Extracted /\ OnlyBoundaries =>
        /\ skipped_count = 0
        /\ deleted_count = 0
        /\ video_ids = IdsOf(SelectSeq(watch_history, HasId))

\* C9 witness: an end is configured and a log of one entry at the start and
\* one at the end has been extracted, both identifiers kept
C9_Witness ==
    /\ Extracted
    /\ config.end_date = WindowEnd
    /\ watch_history = <<[time |-> DefaultStart, titleUrl |-> Url(IdA)],
                         [time |-> WindowEnd, titleUrl |-> TwoEquals(IdB)]>>
    /\ video_ids = <<IdA, IdB>>
    /\ skipped_count = 0

(***************************************************************************)
(* Properties of the fetcher and the aggregator (under Spec, SpecRerun)    *)
(***************************************************************************)
Ended == pc \in {"done", "raised"}

\* ceil(n / b)
CeilDiv(n, b) == (n + b - 1) \div b

RECURSIVE Flatten(_)
Flatten(ss) == IF ss = <<>> THEN <<>> ELSE Head(ss) \o Flatten(Tail(ss))

Answered(c) == "data" \in DOMAIN c.response /\ "items" \in DOMAIN c.response.data

HasDurationText(item) ==
    /\ "contentDetails" \in DOMAIN item
    /\ "duration" \in DOMAIN item.contentDetails

\* what the claim says an item yields: the cap when the decoded duration
\* exceeds it, the decoded duration otherwise, 0 without a duration
Capped(item) ==
    IF ~HasDurationText(item) THEN 0
    ELSE LET decoded == parse_iso_duration(item.contentDetails.duration)
         IN  IF decoded > config.max_duration THEN config.max_duration ELSE decoded

\* C3: whenever the fetcher returns for a response with items, it returns
\* one value per item: the cap for a decoded duration above max_duration,
\* the decoded duration when it is at most the cap, 0 when there is no
\* duration to decode; so no value exceeds the cap, and the total is at
\* most the cap times the number of values summed.
C3_Capped ==
    /\ \A k \in 1..Len(calls) :
          LET c == calls[k]
          IN  (Answered(c) /\ c.exception = NoException) =>
                 /\ Len(c.durations) = Len(c.response.data.items)
                 /\ \A j \in 1..Len(c.durations) :
                       /\ c.durations[j] = Capped(c.response.data.items[j])
                       /\ c.durations[j] <= config.max_duration
    /\ total_duration <= processed_videos * config.max_duration

\* C3 witness: with a cap of 1800 a batch answered with PT2H and an item
\* without duration has returned the cap and 0
C3_Witness ==
    /\ config.max_duration = 1800
    /\ \E k \in 1..Len(calls) :
          /\ calls[k].response = [data |-> [items |-> <<Item(PT2H), ItemNoDuration>>]]
          /\ calls[k].durations = <<1800, 0>>

Batches == [k \in 1..Len(calls) |-> calls[k].batch]

\* C4 as stated: a call of calculate_watch_time over N identifiers with
\* batch size B makes exactly ceil(N/B) fetches, each of a non-empty batch of
\* at most B identifiers, and the batches in order make up the identifiers.
C4_AsStated ==
    Ended =>
        /\ Len(calls) = CeilDiv(Len(video_ids), config.batch_size)
        /\ \A k \in 1..Len(calls) :
              calls[k].batch # <<>> /\ Len(calls[k].batch) <= config.batch_size
        /\ Flatten(Batches) = video_ids

\* C4 in the calls that return: the same, for a call that ends by returning
\* its statistics
C4_WhenReturned ==
    pc = "done" =>
        /\ Len(calls) = CeilDiv(Len(video_ids), config.batch_size)
        /\ \A k \in 1..Len(calls) :
              calls[k].batch # <<>> /\ Len(calls[k].batch) <= config.batch_size
        /\ Flatten(Batches) = video_ids

\* a network error, a non-2xx status, or a response carrying an 'error' object
FailedLookup(c) ==
    \/ "raises" \in DOMAIN c.response
    \/ "data" \in DOMAIN c.response /\ "error" \in DOMAIN c.response.data

Succeeded == SelectSeq(calls, LAMBDA c : ~FailedLookup(c))

\* C5 as stated: a failed lookup makes the fetcher return an empty sequence
\* for the batch, the later batches are fetched all the same, and the final
\* total is the sum of what the successful batches returned.
C5_AsStated ==
    /\ \A k \in 1..Len(calls) :
          FailedLookup(calls[k]) =>
              calls[k].exception = NoException /\ calls[k].durations = <<>>
    /\ Ended =>
          /\ Len(calls) = CeilDiv(Len(video_ids), config.batch_size)
          /\ stats # <<>>
          /\ stats[1].total_seconds =
                 SumSeq(Flatten([k \in 1..Len(Succeeded) |-> Succeeded[k].durations]))

\* C6: the statistics returned hold the sum of the capped durations the
\* fetcher returned over all batches, the number of entries of the log, and
\* the extractor's deleted and skipped counts; the log of one entry without
\* titleUrl, one before the start and one answered PT30M gives 1800, 3, 1, 1.
C6_Statistics ==
    stats # <<>> =>
        /\ stats[1].total_seconds =
               SumSeq(Flatten([k \in 1..Len(calls) |-> calls[k].durations]))
        /\ stats[1].total_videos = Len(watch_history)
        /\ stats[1].deleted_videos = deleted_count
        /\ stats[1].deleted_videos = Count(watch_history, IsDeleted)
        /\ stats[1].skipped_videos = skipped_count
        /\ stats[1].skipped_videos = Count(watch_history, IsSkipped)
        /\ ( /\ watch_history = <<Removed, TooOld, Watched(IdA)>>
             /\ calls[1].response = [data |-> [items |-> <<Item(PT30M)>>]] )
           => stats[1] = [total_seconds |-> 1800, total_videos |-> 3,
                          deleted_videos |-> 1, skipped_videos |-> 1]

\* C6 witness: the three-entry log has been processed with the cap of 5400
C6_Witness ==
    /\ watch_history = <<Removed, TooOld, Watched(IdA)>>
    /\ config.max_duration = 5400
    /\ Len(calls) = 1
    /\ calls[1].response = [data |-> [items |-> <<Item(PT30M)>>]]
    /\ stats = <<[total_seconds |-> 1800, total_videos |-> 3,
                  deleted_videos |-> 1, skipped_videos |-> 1]>>

\* C7 as stated: once the log is loaded no exception escapes
\* calculate_watch_time, whatever the entries and the remote responses.
C7_AsStated == pc # "raised" /\ raised = NoException

\* C8: a second call of calculate_watch_time, on the same calculator or on a
\* new one with the same Config, over the same log and the same remote
\* answers ends as the first did, and when it returns, returns the same
\* statistics.
C8_SameStatistics ==
    (run > 1 /\ Ended) =>
        /\ pc = earlier[1].pc
        /\ stats = earlier[1].stats
        /\ raised = earlier[1].raised

\* C8 witness: a second call on the same calculator, whose last_api_call
\* was left by the first, has returned a non-zero total after two fetches
C8_Witness ==
    /\ run = 2
    /\ pc = "done"
    /\ Len(calls) = 2
    /\ stats[1].total_seconds > 0
    /\ earlier[1].last_api_call > 0
    /\ last_api_call > earlier[1].last_api_call + RateLimitDelay

\* C10: when the extractor yields no identifier the call returns total 0 and
\* the number of log entries without any fetch: no request is recorded, the
\* clock is not read and last_api_call keeps the 0 of __init__.
C10_NoFetch ==
    (pc # "start" /\ video_ids = <<>>) =>
        /\ pc = "done"
        /\ stats = <<[total_seconds |-> 0, total_videos |-> Len(watch_history),
                      deleted_videos |-> Count(watch_history, IsDeleted),
                      skipped_videos |-> Count(watch_history, IsSkipped)]>>
        /\ calls = <<>>
        /\ last_api_call = 0
        /\ now = Epoch

\* C10 witness: a log of a deleted, a skipped and an invalid entry has been
\* processed
C10_Witness ==
    /\ pc = "done"
    /\ watch_history = <<Removed, TooOld, BadId>>
    /\ video_ids = <<>>
    /\ stats[1].total_videos = 3

(***************************************************************************)
(* Properties of _rate_limit (under SpecRerun)                             *)
(*                                                                         *)
(* The clock never runs backwards, and a request is taken to leave at the  *)
(* time _rate_limit stores, the call of requests.get being the next        *)
(* statement executed.                                                     *)
(***************************************************************************)
\* a step in which _fetch_video_durations issues a remote request
Requests == Len(calls') = Len(calls) + 1

\* the calculator has issued a request before: __init__ stores 0, and
\* _rate_limit stores a reading of the clock, which is at least Epoch
CalledBefore == last_api_call # 0

\* the times at which _rate_limit may be entered in this step
Readings == {now + dt : dt \in Elapsed}

\* the step replaces the calculator by a new one
NewCalculator == run' # run /\ last_api_call' = 0

\* C11, the steps: a request leaves only once _rate_limit has stored its
\* time; the stored time never decreases on one calculator; a request that
\* follows another on the same calculator leaves at least rate_limit_delay
\* after it; the first request of a calculator leaves at the time
\* _rate_limit was entered, without any wait.
RateLimitedStep ==
    /\ Requests =>
          /\ last_api_call' = now'
          /\ last_api_call' >= last_api_call
          /\ CalledBefore => now' - last_api_call >= RateLimitDelay
          /\ ~CalledBefore => now' \in Readings
    /\ ~Requests => last_api_call' = last_api_call \/ NewCalculator
    /\ now' >= now

\* C11: across the fetches of one calculator, within a call of
\* calculate_watch_time and from one call to the next, every step is as
\* RateLimitedStep says, and whenever a request has been recorded the
\* calculator holds the time at which it left.
C11_RateLimited ==
    /\ [](calls # <<>> => (CalledBefore /\ last_api_call = now))
    /\ [][RateLimitedStep]_vars

\* C11 witness: in a second call on the same calculator, whose previous
\* request left at Epoch + 1, the first fetch was entered one unit later
\* and its request left exactly rate_limit_delay after the previous one
C11_Witness ==
    /\ run = 2
    /\ earlier[1].last_api_call = Epoch + 1
    /\ Len(calls) = 1
    /\ last_api_call = Epoch + 1 + RateLimitDelay
    /\ now = last_api_call

(***************************************************************************)
(* Properties of the accounting (under SpecAccount)                        *)
(***************************************************************************)
\* an entry with a titleUrl and a time in the window whose text after the
\* last '=' has not 11 characters
IsInvalidLength(e) ==
    /\ ~IsDeleted(e)
    /\ ~OutOfWindow(e)
    /\ Len(TextAfterLastEquals(e.titleUrl)) # 11

\* the identifiers passed to _fetch_video_durations so far
Sent == Flatten(Batches)

\* C12: an in-window entry whose identifier has not 11 characters yields no
\* identifier and is counted neither as deleted nor as skipped, so deleted +
\* skipped + identifiers + invalid-length entries = entries of the log; and
\* the processed count reported from the returned statistics, total -
\* deleted - skipped, is not negative and is the number of identifiers sent
\* to the fetcher plus the number of invalid-length entries.
C12_Accounting ==
    LET invalid == Count(watch_history, IsInvalidLength)
    IN  /\ Extracted =>
              /\ Len(video_ids) = Count(watch_history, IsKept)
              /\ deleted_count = Count(watch_history, IsDeleted)
              /\ skipped_count = Count(watch_history, IsSkipped)
              /\ deleted_count + skipped_count + Len(video_ids) + invalid
                    = Len(watch_history)
        /\ stats # <<>> =>
              /\ ProcessedVideos(stats[1]) >= 0
              /\ ProcessedVideos(stats[1]) >= Len(Sent)
              /\ ProcessedVideos(stats[1]) = Len(Sent) + invalid
              /\ Len(Sent) = Len(video_ids)

\* C12 witness: a log of an entry with 12 characters after '=', one with
\* none and one with 11 has been processed: one identifier was sent and the
\* processed count reported is 3
C12_Witness ==
    /\ watch_history = <<LongId, NoId, Watched(IdA)>>
    /\ Flatten(Batches) = <<IdA>>
    /\ stats # <<>>
    /\ stats[1].deleted_videos = 0
    /\ stats[1].skipped_videos = 0
    /\ ProcessedVideos(stats[1]) = 3

(***************************************************************************)
(* Properties of entries without a time (under SpecUntimed)                *)
(***************************************************************************)
\* an entry that has a titleUrl and no time
IsUntimed(e) == "titleUrl" \in DOMAIN e /\ "time" \notin DOMAIN e

HasBoth(e) == "titleUrl" \in DOMAIN e /\ "time" \in DOMAIN e

IsTimedSkipped(e) == HasBoth(e) /\ OutOfWindow(e)

IsTimedKept(e) == HasBoth(e) /\ ~OutOfWindow(e) /\ HasId(e)

OnlyUntimed == \A k \in 1..Len(watch_history) : IsUntimed(watch_history[k])

\* C13: on a calculator whose Config passed _validate_config the start date
\* is not empty, and every entry that has a titleUrl and no time is counted
\* as skipped and contributes no identifier, whatever its titleUrl and
\* whether or not an end date is configured: the skipped are the untimed
\* entries and the timed ones out of the window, and the identifiers are
\* those of the timed entries alone.
C13_UntimedSkipped ==
    /\ config.start_date # <<>>
    /\ Extracted =>
          /\ skipped_count = Count(watch_history, IsUntimed)
                               + Count(watch_history, IsTimedSkipped)
          /\ video_ids = IdsOf(SelectSeq(watch_history, IsTimedKept))
          /\ OnlyUntimed => (video_ids = <<>> /\ skipped_count = Len(watch_history))

\* C13 witness: with an end date configured, a log of an entry without time
\* and the same entry with a time in the window has been extracted: the
\* first was skipped, the second gave its identifier
C13_Witness ==
    /\ Extracted
    /\ config.end_date = WindowEnd
    /\ config.start_date = DateOnly
    /\ watch_history = <<[titleUrl |-> Url(IdA)],
                         [time |-> WindowEnd, titleUrl |-> Url(IdA)]>>
    /\ skipped_count = 1
    /\ video_ids = <<IdA>>

=============================================================================
